---- MODULE Spec2Model ----
(***************************************************************************)
(* A model of the tarot core (src/src/tarot_core.py): TarotCard, TarotDeck *)
(* and TarotReading.  A card is a record of its four fields, the deck is   *)
(* the list self.cards, a session is its deck plus readings_history.       *)
(* Python's Optional[X] is a sequence of length 0 (None) or 1; a dict is a *)
(* record; str is a TLA+ string.                                           *)
(***************************************************************************)
EXTENDS Integers, Sequences, FiniteSets, TLC

(***************************************************************************)
(* Bounds of the exploration.                                              *)
(***************************************************************************)
\* number of operations called on the session in one behaviour
MaxSteps == 3
\* states of the random generator explored at each shuffle: 0..MaxSeed
MaxSeed == 2

\* arguments passed to draw_cards
DrawCounts == {0, 3, 14, 73, 76, 80}

Seeds == 0..MaxSeed

None == <<>>
Some(x) == <<x>>

Min(a, b) == IF a < b THEN a ELSE b

(***************************************************************************)
(* TarotCard                                                               *)
(***************************************************************************)
\* TarotCard.__init__: a TarotCard object; the class field tells the object
\* from the dict to_dict makes of it
TarotCard_init(name, description, image_file, reversed) ==
    [class |-> "TarotCard", name |-> name, description |-> description,
     image_file |-> image_file, reversed |-> reversed]

\* TarotCard(name, description): image_file and reversed at their defaults
TarotCard(name, description) == TarotCard_init(name, description, None, FALSE)

\* flip with self.reversed = True
flip_sets_reversed(card) == [card EXCEPT !.reversed = TRUE]

flip(card) == [card EXCEPT !.reversed = ~card.reversed]

\* get_meaning without the orientation test
get_meaning_ignores_reversed(card) == card.name \o ": " \o card.description

\* get_meaning with the two orientations exchanged
get_meaning_swapped(card) ==
    IF ~card.reversed
    THEN card.name \o " (Reversed): " \o card.description
         \o " - Consider the opposite or blocked energy."
    ELSE card.name \o ": " \o card.description

get_meaning(card) ==
    IF card.reversed
    THEN card.name \o " (Reversed): " \o card.description
         \o " - Consider the opposite or blocked energy."
    ELSE card.name \o ": " \o card.description

to_dict(card) ==
    [name |-> card.name, description |-> card.description,
     image_file |-> card.image_file, reversed |-> card.reversed]

\* data[key] of a dict without the key raises KeyError
KeyError(key) == [raised |-> "KeyError", key |-> key]

\* from_dict that does not pass data.get('reversed', False) on
from_dict_forgets_reversed(data) ==
    IF "name" \notin DOMAIN data THEN KeyError("name")
    ELSE IF "description" \notin DOMAIN data THEN KeyError("description")
    ELSE TarotCard_init(
             data.name, data.description,
             IF "image_file" \in DOMAIN data THEN data.image_file ELSE None,
             FALSE)

\* from_dict reading the description with data.get('description', '')
from_dict_lenient(data) ==
    IF "name" \notin DOMAIN data THEN KeyError("name")
    ELSE TarotCard_init(
             data.name,
             IF "description" \in DOMAIN data THEN data.description ELSE "",
             IF "image_file" \in DOMAIN data THEN data.image_file ELSE None,
             IF "reversed" \in DOMAIN data THEN data.reversed ELSE FALSE)

\* cls(name=data['name'], description=data['description'],
\*     image_file=data.get('image_file'), reversed=data.get('reversed', False))
\* the arguments are evaluated in this order
from_dict(data) ==
    IF "name" \notin DOMAIN data THEN KeyError("name")
    ELSE IF "description" \notin DOMAIN data THEN KeyError("description")
    ELSE TarotCard_init(
             data.name, data.description,
             IF "image_file" \in DOMAIN data THEN data.image_file ELSE None,
             IF "reversed" \in DOMAIN data THEN data.reversed ELSE FALSE)

(***************************************************************************)
(* TarotDeck._create_deck                                                  *)
(***************************************************************************)
major_arcana == <<
    <<"The Fool", "New beginnings, spontaneity, innocence">>,
    <<"The Magician", "Manifestation, resourcefulness, power">>,
    <<"The High Priestess", "Intuition, sacred knowledge, divine feminine">>,
    <<"The Empress", "Femininity, beauty, nature, abundance">>,
    <<"The Emperor", "Authority, structure, control, father-figure">>,
    <<"The Hierophant", "Spiritual wisdom, religious beliefs, conformity">>,
    <<"The Lovers", "Love, harmony, relationships, values alignment">>,
    <<"The Chariot", "Control, willpower, success, determination">>,
    <<"Strength", "Inner strength, bravery, compassion, focus">>,
    <<"The Hermit", "Soul searching, introspection, inner guidance">>,
    <<"Wheel of Fortune", "Good luck, karma, life cycles, destiny">>,
    <<"Justice", "Justice, fairness, truth, cause and effect">>,
    <<"The Hanged Man", "Suspension, restriction, letting go">>,
    <<"Death", "Endings, beginnings, change, transformation">>,
    <<"Temperance", "Balance, moderation, patience, purpose">>,
    <<"The Devil", "Shadow self, attachment, addiction, restriction">>,
    <<"The Tower", "Sudden change, upheaval, chaos, revelation">>,
    <<"The Star", "Hope, faith, purpose, renewal, spirituality">>,
    <<"The Moon", "Illusion, fear, anxiety, subconscious, intuition">>,
    <<"The Sun", "Optimism, fun, warmth, success, vitality">>,
    <<"Judgement", "Reflection, reckoning, awakening">>,
    <<"The World", "Completion, integration, accomplishment, travel">> >>

\* the suits in alphabetical order
suits_alphabetical == <<"Cups", "Pentacles", "Swords", "Wands">>

suits == <<"Cups", "Wands", "Swords", "Pentacles">>

suit_meanings ==
    [s \in {"Cups", "Wands", "Swords", "Pentacles"} |->
        CASE s = "Cups" -> "emotions, intuition, relationships, spirituality"
          [] s = "Wands" -> "creativity, action, passion, career"
          [] s = "Swords" -> "thoughts, communication, conflict, intellect"
          [] s = "Pentacles" -> "material world, resources, money, career"]

court_cards == <<"Page", "Knight", "Queen", "King">>

\* for i in range(1, 11): the ten number cards of one suit
number_cards(suit) ==
    [i \in 1..10 |->
        TarotCard(IF i = 1 THEN "Ace of " \o suit
                           ELSE ToString(i) \o " of " \o suit,
                  "Represents " \o suit_meanings[suit] \o " at level "
                  \o ToString(i))]

\* for court in court_cards: the four court cards of one suit
court_of(suit) ==
    [j \in 1..Len(court_cards) |->
        TarotCard(court_cards[j] \o " of " \o suit,
                  court_cards[j] \o " energy in the realm of "
                  \o suit_meanings[suit])]

\* for suit in suits, from the k-th suit on
RECURSIVE minor_arcana(_)
minor_arcana(k) ==
    IF k > Len(suits) THEN <<>>
    ELSE number_cards(suits[k]) \o court_of(suits[k]) \o minor_arcana(k + 1)

\* _create_deck appends the 78 cards to self.cards
create_deck(cs) ==
    cs \o [i \in 1..Len(major_arcana) |->
              TarotCard(major_arcana[i][1], major_arcana[i][2])]
       \o minor_arcana(1)

(***************************************************************************)
(* The random source.  random.shuffle(self.cards) yields some permutation  *)
(* of the list and random.choice([True, False]) some boolean per card;     *)
(* both are inputs, determined by the state of the one shared generator,   *)
(* the seed.                                                               *)
(***************************************************************************)
\* a shuffle that draws positions without wrapping around: the last card is
\* taken again for every position past the end
random_shuffle_repeats(s, seed) ==
    LET n == Len(s)
        k == IF n = 0 THEN 0 ELSE (seed \div 2) % n
        rotated == [i \in 1..n |-> s[Min(i + k, n)]]
    IN  IF seed % 2 = 1 THEN [i \in 1..n |-> rotated[n + 1 - i]]
                        ELSE rotated

\* seed 0: same order, odd seed: reversed, seed \div 2: rotation
random_shuffle(s, seed) ==
    LET n == Len(s)
        k == IF n = 0 THEN 0 ELSE (seed \div 2) % n
        rotated == [i \in 1..n |-> s[((i - 1 + k) % n) + 1]]
    IN  IF seed % 2 = 1 THEN [i \in 1..n |-> rotated[n + 1 - i]]
                        ELSE rotated

\* the i-th toss of one shuffle: bit (i-1) % 2 of the seed
random_choice(seed, i) ==
    (seed \div (IF i % 2 = 1 THEN 1 ELSE 2)) % 2 = 1

(***************************************************************************)
(* TarotDeck                                                               *)
(***************************************************************************)
\* shuffle that loses the last card of the shuffled list
shuffle_drops_last(cs, seed) ==
    LET shuffled == random_shuffle(cs, seed)
    IN  [i \in 1..(Len(shuffled) - 1) |->
            IF random_choice(seed, i) THEN flip(shuffled[i]) ELSE shuffled[i]]

shuffle(cs, seed) ==
    LET shuffled == random_shuffle(cs, seed)
    IN  [i \in 1..Len(shuffled) |->
            IF random_choice(seed, i) THEN flip(shuffled[i]) ELSE shuffled[i]]

\* draw_card returning self.cards[-1] without removing it
draw_card_peek(cs) ==
    IF Len(cs) > 0
    THEN [cards |-> cs, ret |-> Some(cs[Len(cs)])]
    ELSE [cards |-> cs, ret |-> None]

\* self.cards.pop() if self.cards else None
draw_card(cs) ==
    IF Len(cs) > 0
    THEN [cards |-> SubSeq(cs, 1, Len(cs) - 1), ret |-> Some(cs[Len(cs)])]
    ELSE [cards |-> cs, ret |-> None]

\* an iteration of the loop that puts the drawn card in front of the result
draw_step_prepends(st) ==
    LET d == draw_card(st.cards)
    IN  [cards |-> d.cards,
         ret |-> IF d.ret # None THEN <<d.ret[1]>> \o st.ret ELSE st.ret]

\* one iteration of the for loop of draw_cards
draw_step(st) ==
    LET d == draw_card(st.cards)
    IN  [cards |-> d.cards,
         ret |-> IF d.ret # None THEN Append(st.ret, d.ret[1]) ELSE st.ret]

\* todo iterations of the loop, one after the other; on an empty deck the
\* remaining iterations draw None and append nothing.  (The recursion halves
\* the count only to keep the evaluation shallow.)
RECURSIVE draw_loop(_, _)
draw_loop(st, todo) ==
    IF todo <= 0 \/ st.cards = <<>> THEN st
    ELSE IF todo = 1 THEN draw_step(st)
    ELSE draw_loop(draw_loop(st, todo \div 2), todo - (todo \div 2))

\* draw_cards with range(min(count, len(self.cards) - 1))
draw_cards_off_by_one(cs, count) ==
    draw_loop([cards |-> cs, ret |-> <<>>], Min(count, Len(cs) - 1))

draw_cards(cs, count) ==
    draw_loop([cards |-> cs, ret |-> <<>>], Min(count, Len(cs)))

\* reset without self.cards.clear()
reset_without_clear(cs) == create_deck(cs)

\* reset that rebuilds the deck only when cards are missing
reset_only_if_incomplete(cs) ==
    IF Len(cs) = Len(create_deck(<<>>)) THEN cs ELSE create_deck(<<>>)

\* self.cards.clear(); self._create_deck()
reset(cs) == create_deck(SubSeq(cs, 1, 0))

remaining_cards(cs) == Len(cs)

(***************************************************************************)
(* TarotReading: each operator is one whole method; it yields the deck and *)
(* the history the method leaves, the value it returns and the card        *)
(* objects it drew.                                                        *)
(***************************************************************************)
three_positions == <<"Past", "Present", "Future">>

celtic_positions == <<
    "Present Situation", "Challenge/Cross", "Distant Past/Foundation",
    "Recent Past", "Possible Outcome", "Near Future", "Your Approach",
    "External Influences", "Hopes and Fears", "Final Outcome" >>

\* "\n".join(lines)
RECURSIVE join(_, _)
join(sep, lines) ==
    IF Len(lines) = 0 THEN ""
    ELSE IF Len(lines) = 1 THEN lines[1]
    ELSE lines[1] \o sep \o join(sep, Tail(lines))

\* interpretation.append(f"{positions[i]}: {card.get_meaning()}") for each card
interpretation_lines(positions, cs) ==
    [i \in 1..Len(cs) |-> positions[i] \o ": " \o get_meaning(cs[i])]

\* single_card_reading testing the deck after the draw instead of the card
single_card_reading_tests_deck(cs, hist, seed) ==
    LET d == draw_card(shuffle(cs, seed))
    IN  IF d.cards = <<>>
        THEN [cards |-> d.cards, readings_history |-> hist, drawn |-> d.ret,
              ret |-> [error |-> "No cards available"]]
        ELSE LET card == d.ret[1]
                 reading ==
                     [type |-> "Single Card",
                      cards |-> <<to_dict(card)>>,
                      interpretation |->
                          "Today's guidance: " \o get_meaning(card)]
             IN  [cards |-> d.cards,
                  readings_history |-> Append(hist, reading),
                  drawn |-> <<card>>, ret |-> reading]

\* single_card_reading inserting the reading at the front of the history
single_card_reading_prepends(cs, hist, seed) ==
    LET d == draw_card(shuffle(cs, seed))
    IN  IF d.ret = None
        THEN [cards |-> d.cards, readings_history |-> hist, drawn |-> <<>>,
              ret |-> [error |-> "No cards available"]]
        ELSE LET card == d.ret[1]
                 reading ==
                     [type |-> "Single Card",
                      cards |-> <<to_dict(card)>>,
                      interpretation |->
                          "Today's guidance: " \o get_meaning(card)]
             IN  [cards |-> d.cards,
                  readings_history |-> <<reading>> \o hist,
                  drawn |-> <<card>>, ret |-> reading]

\* single_card_reading formatting its card through the position template,
\* with no position name
single_card_reading_position_label(cs, hist, seed) ==
    LET d == draw_card(shuffle(cs, seed))
    IN  IF d.ret = None
        THEN [cards |-> d.cards, readings_history |-> hist, drawn |-> <<>>,
              ret |-> [error |-> "No cards available"]]
        ELSE LET card == d.ret[1]
                 reading ==
                     [type |-> "Single Card",
                      cards |-> <<to_dict(card)>>,
                      interpretation |-> "None: " \o get_meaning(card)]
             IN  [cards |-> d.cards,
                  readings_history |-> Append(hist, reading),
                  drawn |-> <<card>>, ret |-> reading]

\* single_card_reading that rebuilds the deck when it finds it empty
single_card_reading_replenishes(cs, hist, seed) ==
    LET d == draw_card(shuffle(IF cs = <<>> THEN create_deck(cs) ELSE cs,
                               seed))
    IN  IF d.ret = None
        THEN [cards |-> d.cards, readings_history |-> hist, drawn |-> <<>>,
              ret |-> [error |-> "No cards available"]]
        ELSE LET card == d.ret[1]
                 reading ==
                     [type |-> "Single Card",
                      cards |-> <<to_dict(card)>>,
                      interpretation |->
                          "Today's guidance: " \o get_meaning(card)]
             IN  [cards |-> d.cards,
                  readings_history |-> Append(hist, reading),
                  drawn |-> <<card>>, ret |-> reading]

single_card_reading(cs, hist, seed) ==
    LET d == draw_card(shuffle(cs, seed))
    IN  IF d.ret = None
        THEN [cards |-> d.cards, readings_history |-> hist, drawn |-> <<>>,
              ret |-> [error |-> "No cards available"]]
        ELSE LET card == d.ret[1]
                 reading ==
                     [type |-> "Single Card",
                      cards |-> <<to_dict(card)>>,
                      interpretation |->
                          "Today's guidance: " \o get_meaning(card)]
             IN  [cards |-> d.cards,
                  readings_history |-> Append(hist, reading),
                  drawn |-> <<card>>, ret |-> reading]

\* three_card_reading without self.readings_history.append(reading)
three_card_reading_no_append(cs, hist, seed) ==
    LET d == draw_cards(shuffle(cs, seed), 3)
    IN  IF Len(d.ret) < 3
        THEN [cards |-> d.cards, readings_history |-> hist, drawn |-> d.ret,
              ret |-> [error |-> "Not enough cards available"]]
        ELSE LET reading ==
                     [type |-> "Three Card (Past, Present, Future)",
                      cards |-> [i \in 1..Len(d.ret) |-> to_dict(d.ret[i])],
                      interpretation |->
                          join("\n", interpretation_lines(three_positions,
                                                          d.ret))]
             IN  [cards |-> d.cards, readings_history |-> hist,
                  drawn |-> d.ret, ret |-> reading]

\* three_card_reading with the test len(cards) < 2
three_card_reading_lt2(cs, hist, seed) ==
    LET d == draw_cards(shuffle(cs, seed), 3)
    IN  IF Len(d.ret) < 2
        THEN [cards |-> d.cards, readings_history |-> hist, drawn |-> d.ret,
              ret |-> [error |-> "Not enough cards available"]]
        ELSE LET reading ==
                     [type |-> "Three Card (Past, Present, Future)",
                      cards |-> [i \in 1..Len(d.ret) |-> to_dict(d.ret[i])],
                      interpretation |->
                          join("\n", interpretation_lines(three_positions,
                                                          d.ret))]
             IN  [cards |-> d.cards,
                  readings_history |-> Append(hist, reading),
                  drawn |-> d.ret, ret |-> reading]

three_card_reading(cs, hist, seed) ==
    LET d == draw_cards(shuffle(cs, seed), 3)
    IN  IF Len(d.ret) < 3
        THEN [cards |-> d.cards, readings_history |-> hist, drawn |-> d.ret,
              ret |-> [error |-> "Not enough cards available"]]
        ELSE LET reading ==
                     [type |-> "Three Card (Past, Present, Future)",
                      cards |-> [i \in 1..Len(d.ret) |-> to_dict(d.ret[i])],
                      interpretation |->
                          join("\n", interpretation_lines(three_positions,
                                                          d.ret))]
             IN  [cards |-> d.cards,
                  readings_history |-> Append(hist, reading),
                  drawn |-> d.ret, ret |-> reading]

\* celtic_cross_reading with the test len(cards) < 5
celtic_cross_reading_lt5(cs, hist, seed) ==
    LET d == draw_cards(shuffle(cs, seed), 10)
    IN  IF Len(d.ret) < 5
        THEN [cards |-> d.cards, readings_history |-> hist, drawn |-> d.ret,
              ret |-> [error |-> "Not enough cards for Celtic Cross reading"]]
        ELSE LET reading ==
                     [type |-> "Celtic Cross",
                      cards |-> [i \in 1..Len(d.ret) |-> to_dict(d.ret[i])],
                      interpretation |->
                          join("\n", interpretation_lines(celtic_positions,
                                                          d.ret))]
             IN  [cards |-> d.cards,
                  readings_history |-> Append(hist, reading),
                  drawn |-> d.ret, ret |-> reading]

\* celtic_cross_reading that puts the cards it drew back before it reports
\* the error
celtic_cross_reading_restores(cs, hist, seed) ==
    LET d == draw_cards(shuffle(cs, seed), 10)
    IN  IF Len(d.ret) < 10
        THEN [cards |-> shuffle(cs, seed), readings_history |-> hist,
              drawn |-> <<>>,
              ret |-> [error |-> "Not enough cards for Celtic Cross reading"]]
        ELSE LET reading ==
                     [type |-> "Celtic Cross",
                      cards |-> [i \in 1..Len(d.ret) |-> to_dict(d.ret[i])],
                      interpretation |->
                          join("\n", interpretation_lines(celtic_positions,
                                                          d.ret))]
             IN  [cards |-> d.cards,
                  readings_history |-> Append(hist, reading),
                  drawn |-> d.ret, ret |-> reading]

celtic_cross_reading(cs, hist, seed) ==
    LET d == draw_cards(shuffle(cs, seed), 10)
    IN  IF Len(d.ret) < 10
        THEN [cards |-> d.cards, readings_history |-> hist, drawn |-> d.ret,
              ret |-> [error |-> "Not enough cards for Celtic Cross reading"]]
        ELSE LET reading ==
                     [type |-> "Celtic Cross",
                      cards |-> [i \in 1..Len(d.ret) |-> to_dict(d.ret[i])],
                      interpretation |->
                          join("\n", interpretation_lines(celtic_positions,
                                                          d.ret))]
             IN  [cards |-> d.cards,
                  readings_history |-> Append(hist, reading),
                  drawn |-> d.ret, ret |-> reading]

(***************************************************************************)
(* Persistence.  A file holds a JSON document or text that is not JSON.    *)
(* json.dump maps dict -> object (members in insertion order), list ->     *)
(* array, str -> string, True/False -> true/false, None -> null; json.load *)
(* maps them back.                                                         *)
(***************************************************************************)
\* the second path lies in a directory that does not exist
Paths == {"reading.rdg", "no_such_dir/reading.rdg"}

\* open() raises for a path in a missing directory and for a file the
\* process has no permission on
can_open(path) == path \notin {"no_such_dir/reading.rdg", "locked.rdg"}

not_json == [t |-> "invalid"]

\* the escape sequence json.dump writes for one character
escape_char(c) ==
    CASE c = "\"" -> "\\\""
      [] c = "\\" -> "\\\\"
      [] c = "\n" -> "\\n"
      [] c = "\r" -> "\\r"
      [] c = "\t" -> "\\t"
      [] OTHER -> c

\* the text json.dump writes between the quotes of a string, character by
\* character (the recursion halves the string to keep the evaluation shallow)
RECURSIVE json_escape(_)
json_escape(s) ==
    IF Len(s) = 0 THEN ""
    ELSE IF Len(s) = 1 THEN escape_char(s)
    ELSE json_escape(SubSeq(s, 1, Len(s) \div 2))
         \o json_escape(SubSeq(s, (Len(s) \div 2) + 1, Len(s)))

\* unescape_char taking every escaped character for itself
unescape_char_verbatim(c) == c

\* the character an escape sequence stands for, from the character after
\* its backslash
unescape_char(c) ==
    CASE c = "n" -> "\n"
      [] c = "r" -> "\r"
      [] c = "t" -> "\t"
      [] OTHER -> c

\* json.load on the text between the quotes: up to the first backslash the
\* text stands for itself, the backslash and the next character are one
\* escape sequence
RECURSIVE json_unescape(_)
json_unescape(v) ==
    LET slashes == {i \in 1..Len(v) : SubSeq(v, i, i) = "\\"}
    IN  IF slashes = {} THEN v
        ELSE LET i == CHOOSE i \in slashes : \A k \in slashes : i <= k
             IN  SubSeq(v, 1, i - 1)
                 \o unescape_char(SubSeq(v, i + 1, i + 1))
                 \o json_unescape(SubSeq(v, i + 2, Len(v)))

json_str(s) == [t |-> "string", v |-> json_escape(s)]
json_bool(b) == [t |-> IF b THEN "true" ELSE "false"]
json_null == [t |-> "null"]
json_array(items) == [t |-> "array", items |-> items]
json_object(members) == [t |-> "object", members |-> members]

json_dump_card(c) ==
    json_object(<< <<"name", json_str(c.name)>>,
                   <<"description", json_str(c.description)>>,
                   <<"image_file", IF c.image_file = None THEN json_null
                                   ELSE json_str(c.image_file[1])>>,
                   <<"reversed", json_bool(c.reversed)>> >>)

json_dump(reading) ==
    IF "error" \in DOMAIN reading
    THEN json_object(<< <<"error", json_str(reading.error)>> >>)
    ELSE json_object(<<
             <<"type", json_str(reading.type)>>,
             <<"cards", json_array([i \in 1..Len(reading.cards) |->
                                       json_dump_card(reading.cards[i])])>>,
             <<"interpretation", json_str(reading.interpretation)>> >>)

RECURSIVE json_load(_)
json_load(j) ==
    CASE j.t = "string" -> json_unescape(j.v)
      [] j.t = "true" -> TRUE
      [] j.t = "false" -> FALSE
      [] j.t = "null" -> None
      [] j.t = "array" -> [i \in 1..Len(j.items) |-> json_load(j.items[i])]
      [] j.t = "object" ->
            [k \in {j.members[i][1] : i \in 1..Len(j.members)} |->
                LET i == CHOOSE i \in 1..Len(j.members) :
                             /\ j.members[i][1] = k
                             /\ \A i2 \in (i + 1)..Len(j.members) :
                                    j.members[i2][1] # k
                IN  json_load(j.members[i][2])]

\* json.dump raises TypeError on a value that holds an object: here a reading
\* whose cards are TarotCard objects instead of their dicts
serializable(reading) ==
    "cards" \in DOMAIN reading =>
        \A i \in 1..Len(reading.cards) :
            "class" \notin DOMAIN reading.cards[i]

\* save_reading answering True from the except branch as well
save_reading_hides_dump_error(fs, filename, reading) ==
    IF ~can_open(filename) THEN [files |-> fs, ret |-> FALSE]
    ELSE IF ~serializable(reading)
    THEN [files |-> [fs EXCEPT ![filename] = Some(not_json)], ret |-> TRUE]
    ELSE [files |-> [fs EXCEPT ![filename] = Some(json_dump(reading))],
          ret |-> TRUE]

\* open(filename, 'w') truncates or creates the file, json.dump writes it; a
\* dump that raises leaves the part written so far, which is not JSON
save_reading(fs, filename, reading) ==
    IF ~can_open(filename) THEN [files |-> fs, ret |-> FALSE]
    ELSE IF ~serializable(reading)
    THEN [files |-> [fs EXCEPT ![filename] = Some(not_json)], ret |-> FALSE]
    ELSE [files |-> [fs EXCEPT ![filename] = Some(json_dump(reading))],
          ret |-> TRUE]

\* load_reading rejecting a document without the keys of a reading
load_reading_validates(fs, filename) ==
    IF can_open(filename) /\ fs[filename] # None
                          /\ fs[filename][1] # not_json
    THEN LET loaded == json_load(fs[filename][1])
         IN  IF {"type", "cards", "interpretation"} \subseteq DOMAIN loaded
             THEN Some(loaded) ELSE None
    ELSE None

load_reading(fs, filename) ==
    IF can_open(filename) /\ fs[filename] # None
                          /\ fs[filename][1] # not_json
    THEN Some(json_load(fs[filename][1]))
    ELSE None

(***************************************************************************)
(* The session and its caller.                                             *)
(***************************************************************************)
VARIABLES
    cards,              \* TarotReading.deck.cards
    readings_history,   \* TarotReading.readings_history
    files,              \* the file system: path -> Optional[content]
    op,                 \* the method called last
    arg,                \* its argument (draw_cards: count, load_reading:
                        \* filename, save_reading: <<filename, reading>>)
    ret,                \* the value it returned
    drawn,              \* the card objects it took from the deck
    ok_readings,        \* reading calls so far that returned no error
    failed_readings,    \* reading calls so far that returned an error
    steps,              \* calls so far
    objects,            \* the TarotCard objects constructed, by address
    lists,              \* the list objects constructed, by address
    sessions,           \* the TarotReading objects: the addresses of their
                        \* deck.cards and readings_history lists
    held                \* the addresses of the cards drawn so far

vars == <<cards, readings_history, files, op, arg, ret, drawn, ok_readings,
          failed_readings, steps, objects, lists, sessions, held>>

\* with one session, cards and readings_history hold the values of its two
\* lists and no address is kept
Unaddressed ==
    /\ objects = <<>>
    /\ lists = <<>>
    /\ sessions = <<>>
    /\ held = <<>>

ReadingOps == {"single_card_reading", "three_card_reading",
               "celtic_cross_reading"}

is_error(r) == "error" \in DOMAIN r

\* TarotReading.__init__: a full deck, an empty history
Init ==
    /\ cards = create_deck(<<>>)
    /\ readings_history = <<>>
    /\ files = [p \in Paths |->
                   IF p = "reading.rdg" THEN Some(not_json) ELSE None]
    /\ op = "init"
    /\ arg = None
    /\ ret = None
    /\ drawn = <<>>
    /\ ok_readings = 0
    /\ failed_readings = 0
    /\ steps = 0
    /\ Unaddressed

Called(name, a) ==
    /\ steps < MaxSteps
    /\ steps' = steps + 1
    /\ op' = name
    /\ arg' = a
    /\ UNCHANGED <<objects, lists, sessions, held>>

Shuffle ==
    \E seed \in Seeds :
        /\ Called("shuffle", None)
        /\ cards' = shuffle(cards, seed)
        /\ ret' = None
        /\ drawn' = <<>>
        /\ UNCHANGED <<readings_history, files, ok_readings, failed_readings>>

DrawCard ==
    /\ Called("draw_card", None)
    /\ LET d == draw_card(cards)
       IN  /\ cards' = d.cards
           /\ ret' = d.ret
           /\ drawn' = d.ret
    /\ UNCHANGED <<readings_history, files, ok_readings, failed_readings>>

DrawCards ==
    \E count \in DrawCounts :
        /\ Called("draw_cards", count)
        /\ LET d == draw_cards(cards, count)
           IN  /\ cards' = d.cards
               /\ ret' = d.ret
               /\ drawn' = d.ret
        /\ UNCHANGED <<readings_history, files, ok_readings, failed_readings>>

Reset ==
    /\ Called("reset", None)
    /\ cards' = reset(cards)
    /\ ret' = None
    /\ drawn' = <<>>
    /\ UNCHANGED <<readings_history, files, ok_readings, failed_readings>>

\* what a reading method leaves behind
Returned(r) ==
    /\ cards' = r.cards
    /\ readings_history' = r.readings_history
    /\ ret' = r.ret
    /\ drawn' = r.drawn
    /\ ok_readings' = IF is_error(r.ret) THEN ok_readings ELSE ok_readings + 1
    /\ failed_readings' = IF is_error(r.ret) THEN failed_readings + 1
                                             ELSE failed_readings
    /\ UNCHANGED files

SingleCardReading ==
    \E seed \in Seeds :
        /\ Called("single_card_reading", None)
        /\ Returned(single_card_reading(cards, readings_history, seed))

ThreeCardReading ==
    \E seed \in Seeds :
        /\ Called("three_card_reading", None)
        /\ Returned(three_card_reading(cards, readings_history, seed))

CelticCrossReading ==
    \E seed \in Seeds :
        /\ Called("celtic_cross_reading", None)
        /\ Returned(celtic_cross_reading(cards, readings_history, seed))

\* the caller saves the reading it was handed last
SaveReading ==
    \E filename \in Paths :
        /\ op \in ReadingOps
        /\ Called("save_reading", <<filename, ret>>)
        /\ LET s == save_reading(files, filename, ret)
           IN  /\ files' = s.files
               /\ ret' = s.ret
        /\ drawn' = <<>>
        /\ UNCHANGED <<cards, readings_history, ok_readings, failed_readings>>

LoadReading ==
    \E filename \in Paths :
        /\ Called("load_reading", filename)
        /\ ret' = load_reading(files, filename)
        /\ drawn' = <<>>
        /\ UNCHANGED <<cards, readings_history, files, ok_readings,
                       failed_readings>>

Next ==
    \/ Shuffle
    \/ DrawCard
    \/ DrawCards
    \/ Reset
    \/ SingleCardReading
    \/ ThreeCardReading
    \/ CelticCrossReading
    \/ SaveReading
    \/ LoadReading

Spec == Init /\ [][Next]_vars

(***************************************************************************)
(* Persistence on its own: a session whose caller makes readings, saves    *)
(* them (as returned, or with the drawn card objects in place of their     *)
(* dicts) and loads files, among them one that holds JSON which is not a   *)
(* reading and one the process may not open.                               *)
(***************************************************************************)
PersistPaths == Paths \cup {"other.json", "locked.rdg"}

\* {"type": "Celtic Cross", "cards": [{"description": "a \"card\""}]}
other_document ==
    json_object(<<
        <<"type", [t |-> "string", v |-> "Celtic Cross"]>>,
        <<"cards", json_array(<<
            json_object(<<
                <<"description", [t |-> "string", v |-> "a \\\"card\\\""]>>
            >>) >>)>> >>)

InitPersist ==
    /\ cards = create_deck(<<>>)
    /\ readings_history = <<>>
    /\ files = [p \in PersistPaths |->
                   CASE p = "reading.rdg" -> Some(not_json)
                     [] p = "other.json" -> Some(other_document)
                     [] p = "locked.rdg" -> Some(other_document)
                     [] OTHER -> None]
    /\ op = "init"
    /\ arg = None
    /\ ret = None
    /\ drawn = <<>>
    /\ ok_readings = 0
    /\ failed_readings = 0
    /\ steps = 0
    /\ Unaddressed

\* what the caller may pass to save_reading after a reading: the dict it got
\* and, after a success, the same dict holding the card objects
SaveInputs ==
    IF op \notin ReadingOps THEN {}
    ELSE IF is_error(ret) THEN {ret}
    ELSE {ret, [ret EXCEPT !.cards = drawn]}

SaveAnyReading ==
    \E filename \in PersistPaths, reading \in SaveInputs :
        /\ Called("save_reading", <<filename, reading>>)
        /\ LET s == save_reading(files, filename, reading)
           IN  /\ files' = s.files
               /\ ret' = s.ret
        /\ drawn' = <<>>
        /\ UNCHANGED <<cards, readings_history, ok_readings, failed_readings>>

\* load_reading that appends what it loaded to self.readings_history
LoadAnyReading_appends ==
    \E filename \in PersistPaths :
        /\ Called("load_reading", filename)
        /\ ret' = load_reading(files, filename)
        /\ readings_history' =
               IF load_reading(files, filename) = None THEN readings_history
               ELSE Append(readings_history, load_reading(files, filename)[1])
        /\ drawn' = <<>>
        /\ UNCHANGED <<cards, files, ok_readings, failed_readings>>

LoadAnyReading ==
    \E filename \in PersistPaths :
        /\ Called("load_reading", filename)
        /\ ret' = load_reading(files, filename)
        /\ drawn' = <<>>
        /\ UNCHANGED <<cards, readings_history, files, ok_readings,
                       failed_readings>>

NextPersist ==
    \/ SingleCardReading
    \/ ThreeCardReading
    \/ CelticCrossReading
    \/ SaveAnyReading
    \/ LoadAnyReading

SpecPersist == InitPersist /\ [][NextPersist]_vars

(***************************************************************************)
(* One card on its own: a caller holds a TarotCard object (cards is the    *)
(* one-element list of it) and calls its methods and from_dict.            *)
(***************************************************************************)
CardNames == {"The Fool", "Ace of Cups"}
CardDescriptions == {"New beginnings, spontaneity, innocence",
                     "Represents emotions, intuition, relationships, spirituality at level 1"}
CardImages == {None, Some("fool.png")}

\* the dict of the card the caller holds, with some of its keys left out
Mappings ==
    {[k \in keys |-> to_dict(cards[1])[k]] :
        keys \in SUBSET {"name", "description", "image_file", "reversed"}}

InitCard ==
    /\ cards \in {<<TarotCard_init(n, d, f, r)>> :
                     n \in CardNames, d \in CardDescriptions,
                     f \in CardImages, r \in BOOLEAN}
    /\ readings_history = <<>>
    /\ files = [p \in Paths |-> None]
    /\ op = "init"
    /\ arg = None
    /\ ret = None
    /\ drawn = <<>>
    /\ ok_readings = 0
    /\ failed_readings = 0
    /\ steps = 0
    /\ Unaddressed

Flip ==
    /\ Called("flip", None)
    /\ cards' = <<flip(cards[1])>>
    /\ ret' = None
    /\ UNCHANGED <<readings_history, files, drawn, ok_readings,
                   failed_readings>>

GetMeaning ==
    /\ Called("get_meaning", None)
    /\ ret' = get_meaning(cards[1])
    /\ UNCHANGED <<cards, readings_history, files, drawn, ok_readings,
                   failed_readings>>

ToDict ==
    /\ Called("to_dict", None)
    /\ ret' = to_dict(cards[1])
    /\ UNCHANGED <<cards, readings_history, files, drawn, ok_readings,
                   failed_readings>>

FromDict ==
    \E data \in Mappings :
        /\ Called("from_dict", data)
        /\ ret' = from_dict(data)
        /\ UNCHANGED <<cards, readings_history, files, drawn, ok_readings,
                   failed_readings>>

NextCard ==
    \/ Flip
    \/ GetMeaning
    \/ ToDict
    \/ FromDict

SpecCard == InitCard /\ [][NextCard]_vars

(***************************************************************************)
(* A session whose deck is never reset: the caller shuffles, draws and     *)
(* makes readings as above, and a caller who has made Celtic Cross         *)
(* readings only (but for one call at most) goes on making them, up to     *)
(* MaxCeltic calls.                                                        *)
(***************************************************************************)
MaxCeltic == 9

OnlyCeltic(hist) ==
    \A e \in 1..Len(hist) : hist[e].type = "Celtic Cross"

CelticCrossReadingAgain ==
    \E seed \in {0, MaxSeed} :
        /\ op \in {"init", "celtic_cross_reading"}
        /\ OnlyCeltic(readings_history)
        /\ steps <= Len(readings_history) + 1
        /\ steps < MaxCeltic
        /\ steps' = steps + 1
        /\ op' = "celtic_cross_reading"
        /\ arg' = None
        /\ Returned(celtic_cross_reading(cards, readings_history, seed))
        /\ UNCHANGED <<objects, lists, sessions, held>>

NextNoReset ==
    \/ Shuffle
    \/ DrawCard
    \/ DrawCards
    \/ SingleCardReading
    \/ ThreeCardReading
    \/ CelticCrossReading
    \/ CelticCrossReadingAgain

SpecNoReset == Init /\ [][NextNoReset]_vars

(***************************************************************************)
(* Two sessions, by reference.  A TarotCard and a list are objects: the     *)
(* store maps an address to the fields of the card, or to the elements of  *)
(* the list, that lives there; deck.cards is a list of card addresses.  A  *)
(* method reads the cards its list refers to, runs as above, and leaves    *)
(* the cards it touched at their addresses; a card it constructed gets the *)
(* next free address.  cards, readings_history and the two counts of       *)
(* readings are not used here.                                             *)
(***************************************************************************)
MaxCalls == 2

Sessions == {"A", "B"}

SessionDrawCounts == {3, 80}

\* the generator states tried here: the one that changes nothing and the
\* last one
SessionSeeds == {0, MaxSeed}

SessionOps == {"shuffle", "draw_card", "draw_cards", "reset"} \cup ReadingOps

\* the card at address o, as a method that got hold of it sees it
addressed(objs, o) ==
    [class |-> objs[o].class, name |-> objs[o].name,
     description |-> objs[o].description, image_file |-> objs[o].image_file,
     reversed |-> objs[o].reversed, id |-> o]

\* the cards a list of addresses refers to
referents(objs, ids) == [i \in 1..Len(ids) |-> addressed(objs, ids[i])]

\* a card that TarotCard(...) has just constructed lives nowhere yet
is_new(c) == "id" \notin DOMAIN c

is_old(c) == "id" \in DOMAIN c

\* the fields of a card
fields(c) == TarotCard_init(c.name, c.description, c.image_file, c.reversed)

\* the store with the cards cs[lo..hi] left at the addresses they were read
\* from.  (The recursion halves the range only to keep the evaluation
\* shallow.)
RECURSIVE put(_, _, _, _)
put(objs, cs, lo, hi) ==
    IF lo > hi \/ Len(objs) = 0 THEN objs
    ELSE IF lo = hi THEN [objs EXCEPT ![cs[lo].id] = fields(cs[lo])]
    ELSE put(put(objs, cs, lo, (lo + hi) \div 2), cs,
             ((lo + hi) \div 2) + 1, hi)

\* the store after a method that leaves the cards cs, and their addresses:
\* a card read from the store is left where it was, the new ones get the
\* next free addresses in their order
assign(objs, cs) ==
    LET old == SelectSeq(cs, is_old)
        new == SelectSeq(cs, is_new)
        fresh(i) == Len(SelectSeq(SubSeq(cs, 1, i), is_new))
    IN  [objects |-> put(objs, old, 1, Len(old))
                     \o [i \in 1..Len(new) |-> fields(new[i])],
         ids |-> [i \in 1..Len(cs) |->
                     IF is_new(cs[i]) THEN Len(objs) + fresh(i)
                                      ELSE cs[i].id]]

\* TarotDeck.__init__ handing out the cards of one table built on first use
TarotDeck_init_shared_cards(objs, ls) ==
    IF objs = <<>>
    THEN LET a == assign(objs, create_deck(<<>>))
         IN  [objects |-> a.objects, lists |-> Append(ls, a.ids),
              cards |-> Len(ls) + 1]
    ELSE [objects |-> objs,
          lists |-> Append(ls, [i \in 1..Len(create_deck(<<>>)) |-> i]),
          cards |-> Len(ls) + 1]

\* self.cards = []; self._create_deck(): a new list of 78 new cards
TarotDeck_init(objs, ls) ==
    LET a == assign(objs, create_deck(<<>>))
    IN  [objects |-> a.objects, lists |-> Append(ls, a.ids),
         cards |-> Len(ls) + 1]

\* TarotReading with readings_history = [] as a class attribute: the list of
\* the first session serves all
TarotReading_init_class_history(objs, ls) ==
    LET d == TarotDeck_init(objs, ls)
    IN  [objects |-> d.objects, lists |-> Append(d.lists, <<>>),
         session |-> [cards |-> d.cards, readings_history |-> 2]]

\* self.deck = TarotDeck(); self.readings_history = []
TarotReading_init(objs, ls) ==
    LET d == TarotDeck_init(objs, ls)
    IN  [objects |-> d.objects, lists |-> Append(d.lists, <<>>),
         session |-> [cards |-> d.cards,
                      readings_history |-> Len(d.lists) + 1]]

\* A = TarotReading(); B = TarotReading()
InitSessions ==
    LET a == TarotReading_init(<<>>, <<>>)
        b == TarotReading_init(a.objects, a.lists)
    IN  /\ objects = b.objects
        /\ lists = b.lists
        /\ sessions = [s \in Sessions |->
                          IF s = "A" THEN a.session ELSE b.session]
        /\ held = <<>>
        /\ cards = <<>>
        /\ readings_history = <<>>
        /\ files = [p \in Paths |->
                       IF p = "reading.rdg" THEN Some(not_json) ELSE None]
        /\ op = "init"
        /\ arg = None
        /\ ret = None
        /\ drawn = <<>>
        /\ ok_readings = 0
        /\ failed_readings = 0
    /\ failed_readings = 0
        /\ steps = 0

CalledOn(name, a) ==
    /\ steps < MaxCalls
    /\ steps' = steps + 1
    /\ op' = name
    /\ arg' = a
    /\ UNCHANGED <<cards, readings_history, ok_readings, failed_readings>>

\* session.deck.cards and session.readings_history
deck(s) == lists[sessions[s].cards]
history(s) == lists[sessions[s].readings_history]

ShuffleOf ==
    \E s \in Sessions, seed \in SessionSeeds :
        /\ CalledOn("shuffle", <<s>>)
        /\ LET a == assign(objects, shuffle(referents(objects, deck(s)), seed))
           IN  /\ objects' = a.objects
               /\ lists' = [lists EXCEPT ![sessions[s].cards] = a.ids]
        /\ ret' = None
        /\ drawn' = <<>>
        /\ UNCHANGED <<files, sessions, held>>

DrawCardOf ==
    \E s \in Sessions :
        /\ CalledOn("draw_card", <<s>>)
        /\ LET d == draw_card(deck(s))
           IN  /\ lists' = [lists EXCEPT ![sessions[s].cards] = d.cards]
               /\ ret' = d.ret
               /\ drawn' = d.ret
               /\ held' = held \o d.ret
        /\ UNCHANGED <<files, objects, sessions>>

DrawCardsOf ==
    \E s \in Sessions, count \in SessionDrawCounts :
        /\ CalledOn("draw_cards", <<s, count>>)
        /\ LET d == draw_cards(deck(s), count)
           IN  /\ lists' = [lists EXCEPT ![sessions[s].cards] = d.cards]
               /\ ret' = d.ret
               /\ drawn' = d.ret
               /\ held' = held \o d.ret
        /\ UNCHANGED <<files, objects, sessions>>

ResetOf ==
    \E s \in Sessions :
        /\ CalledOn("reset", <<s>>)
        /\ LET a == assign(objects, reset(referents(objects, deck(s))))
           IN  /\ objects' = a.objects
               /\ lists' = [lists EXCEPT ![sessions[s].cards] = a.ids]
        /\ ret' = None
        /\ drawn' = <<>>
        /\ UNCHANGED <<files, sessions, held>>

\* what a reading method of session s leaves behind
ReturnedTo(s, r) ==
    LET a == assign(objects, r.cards \o r.drawn)
        n == Len(r.cards)
        taken == SubSeq(a.ids, n + 1, Len(a.ids))
    IN  /\ objects' = a.objects
        /\ lists' = [lists EXCEPT
                        ![sessions[s].cards] = SubSeq(a.ids, 1, n),
                        ![sessions[s].readings_history] = r.readings_history]
        /\ ret' = r.ret
        /\ drawn' = taken
        /\ held' = held \o taken
        /\ UNCHANGED <<files, sessions>>

SingleCardReadingOf ==
    \E s \in Sessions, seed \in SessionSeeds :
        /\ CalledOn("single_card_reading", <<s>>)
        /\ ReturnedTo(s, single_card_reading(referents(objects, deck(s)),
                                             history(s), seed))

ThreeCardReadingOf ==
    \E s \in Sessions, seed \in SessionSeeds :
        /\ CalledOn("three_card_reading", <<s>>)
        /\ ReturnedTo(s, three_card_reading(referents(objects, deck(s)),
                                            history(s), seed))

CelticCrossReadingOf ==
    \E s \in Sessions, seed \in SessionSeeds :
        /\ CalledOn("celtic_cross_reading", <<s>>)
        /\ ReturnedTo(s, celtic_cross_reading(referents(objects, deck(s)),
                                              history(s), seed))

\* the cards the caller calls a method of: the card drawn last and the card
\* at the end of either deck
Targets ==
    {held[i] : i \in {Len(held)} \cap DOMAIN held}
    \cup {deck(s)[Len(deck(s))] : s \in {t \in Sessions : deck(t) # <<>>}}

FlipOf ==
    \E o \in Targets :
        /\ CalledOn("flip", <<o>>)
        /\ objects' = [objects EXCEPT ![o] = flip(@)]
        /\ ret' = None
        /\ drawn' = <<>>
        /\ UNCHANGED <<files, lists, sessions, held>>

GetMeaningOf ==
    \E o \in Targets :
        /\ CalledOn("get_meaning", <<o>>)
        /\ ret' = get_meaning(objects[o])
        /\ drawn' = <<>>
        /\ UNCHANGED <<files, objects, lists, sessions, held>>

ToDictOf ==
    \E o \in Targets :
        /\ CalledOn("to_dict", <<o>>)
        /\ ret' = to_dict(objects[o])
        /\ drawn' = <<>>
        /\ UNCHANGED <<files, objects, lists, sessions, held>>

SaveReadingOf ==
    \E filename \in Paths :
        /\ op \in ReadingOps
        /\ CalledOn("save_reading", <<filename, ret>>)
        /\ LET s == save_reading(files, filename, ret)
           IN  /\ files' = s.files
               /\ ret' = s.ret
        /\ drawn' = <<>>
        /\ UNCHANGED <<objects, lists, sessions, held>>

LoadReadingOf ==
    \E filename \in Paths :
        /\ CalledOn("load_reading", <<filename>>)
        /\ ret' = load_reading(files, filename)
        /\ drawn' = <<>>
        /\ UNCHANGED <<files, objects, lists, sessions, held>>

NextSessions ==
    \/ ShuffleOf
    \/ DrawCardOf
    \/ DrawCardsOf
    \/ ResetOf
    \/ SingleCardReadingOf
    \/ ThreeCardReadingOf
    \/ CelticCrossReadingOf
    \/ FlipOf
    \/ GetMeaningOf
    \/ ToDictOf
    \/ SaveReadingOf
    \/ LoadReadingOf

SpecSessions == InitSessions /\ [][NextSessions]_vars

(***************************************************************************)
(* Properties.                                                             *)
(***************************************************************************)
Names(cs) == {cs[i].name : i \in 1..Len(cs)}

Distinct(cs) ==
    \A i, j \in 1..Len(cs) : cs[i].name = cs[j].name => i = j

\* the canonical name set: the 22 major names and rank x suit
CanonicalNames ==
    {"The Fool", "The Magician", "The High Priestess", "The Empress",
     "The Emperor", "The Hierophant", "The Lovers", "The Chariot",
     "Strength", "The Hermit", "Wheel of Fortune", "Justice",
     "The Hanged Man", "Death", "Temperance", "The Devil", "The Tower",
     "The Star", "The Moon", "The Sun", "Judgement", "The World"}
    \cup {rank \o " of " \o suit :
             rank \in {"Ace", "2", "3", "4", "5", "6", "7", "8", "9", "10",
                       "Page", "Knight", "Queen", "King"},
             suit \in {"Cups", "Wands", "Swords", "Pentacles"}}

\* the required count and the label of each reading operation
RequiredCount(o) ==
    CASE o = "single_card_reading" -> 1
      [] o = "three_card_reading" -> 3
      [] o = "celtic_cross_reading" -> 10

TypeLabel(o) ==
    CASE o = "single_card_reading" -> "Single Card"
      [] o = "three_card_reading" -> "Three Card (Past, Present, Future)"
      [] o = "celtic_cross_reading" -> "Celtic Cross"

\* C1: right after construction and right after reset() in any state, 78
\* cards remain, their names are pairwise distinct and are exactly the
\* canonical name set (22 major names plus 4 suits x 14 ranks).
C1_FreshDeckCanonical ==
    op \in {"init", "reset"} =>
        /\ remaining_cards(cards) = 78
        /\ Distinct(cards)
        /\ Names(cards) = CanonicalNames
        /\ Cardinality(CanonicalNames) = 78

\* reset() was called after readings had shuffled and drawn from the deck
C1_Witness ==
    /\ op = "reset"
    /\ readings_history # <<>>
    /\ remaining_cards(cards) = 78

\* C2: draw_cards(n), n >= 0, on a deck of r cards returns min(n, r) cards
\* and leaves r - min(n, r); for n > r it returns r cards and empties the deck.
C2_DrawCardsClamped ==
    [][op' = "draw_cards" =>
          LET r == Len(cards)
              n == arg'
          IN  /\ Len(ret') = Min(n, r)
              /\ Len(cards') = r - Min(n, r)
              /\ n > r => (Len(ret') = r /\ cards' = <<>>)]_vars

\* draw_cards(n) was called with n above the r > 0 cards that remained
C2_Witness ==
    /\ op = "draw_cards"
    /\ Len(ret) > 0
    /\ arg > Len(ret)
    /\ cards = <<>>

\* C3: draw_card() on an empty deck returns None and leaves the deck empty,
\* call after call; on a non-empty deck it returns a card and the deck is one
\* card shorter.
C3_DrawCard ==
    [][op' = "draw_card" =>
          IF cards = <<>>
          THEN ret' = None /\ cards' = <<>>
          ELSE /\ Len(ret') = 1
               /\ ret'[1].name \in Names(cards)
               /\ Len(cards') = Len(cards) - 1]_vars

\* draw_card() returned None on an empty deck, after an earlier call had
\* already left the deck empty
C3_Witness ==
    /\ op = "draw_card"
    /\ ret = None
    /\ cards = <<>>
    /\ steps >= 2

\* C4: a reading operation with required count c called on a deck of at
\* least c cards returns no error, has the operation's label as type, c card
\* snapshots in draw order, shortens the deck by c and appends its result as
\* the last history entry.
C4_ReadingSucceeds ==
    [][(op' \in ReadingOps /\ Len(cards) >= RequiredCount(op')) =>
          LET c == RequiredCount(op')
          IN  /\ ~is_error(ret')
              /\ ret'.type = TypeLabel(op')
              /\ Len(ret'.cards) = c
              /\ Len(drawn') = c
              /\ \A i \in 1..c : ret'.cards[i] = to_dict(drawn'[i])
              /\ Names(drawn') \subseteq Names(cards)
              /\ Names(cards') = Names(cards) \ Names(drawn')
              /\ Len(cards') = Len(cards) - c
              /\ readings_history' = Append(readings_history, ret')]_vars

\* a Celtic Cross reading succeeded as the second reading of the session
C4_Witness ==
    /\ op = "celtic_cross_reading"
    /\ ~is_error(ret)
    /\ Len(readings_history) = 2
    /\ readings_history[2] = ret

\* C5: celtic_cross_reading() on a deck of fewer than 10 cards returns
\* {error: "Not enough cards for Celtic Cross reading"} and leaves the
\* history unchanged.
C5_CelticInsufficient ==
    [][(op' = "celtic_cross_reading" /\ Len(cards) < 10) =>
          /\ ret' = [error |-> "Not enough cards for Celtic Cross reading"]
          /\ readings_history' = readings_history]_vars

\* celtic_cross_reading() was called with 5 cards remaining
C5_Witness ==
    /\ op = "celtic_cross_reading"
    /\ is_error(ret)
    /\ Len(cards) + Len(drawn) = 5

\* C6 as stated: three_card_reading() with fewer than 3 cards and
\* single_card_reading() with no cards both return
\* {error: "Not enough cards available"} and do not append to the history.
C6_SameMessage ==
    [][((op' = "three_card_reading" /\ Len(cards) < 3)
        \/ (op' = "single_card_reading" /\ Len(cards) = 0)) =>
          /\ ret' = [error |-> "Not enough cards available"]
          /\ readings_history' = readings_history]_vars

\* C6 amended: three_card_reading() with fewer than 3 cards returns
\* {error: "Not enough cards available"}, single_card_reading() with no cards
\* returns {error: "No cards available"}; neither appends to the history.
C6_Amended ==
    [][/\ (op' = "three_card_reading" /\ Len(cards) < 3) =>
             /\ ret' = [error |-> "Not enough cards available"]
             /\ readings_history' = readings_history
       /\ (op' = "single_card_reading" /\ Len(cards) = 0) =>
             /\ ret' = [error |-> "No cards available"]
             /\ readings_history' = readings_history]_vars

\* single_card_reading() was called on an empty deck
C6_Witness ==
    /\ op = "single_card_reading"
    /\ is_error(ret)
    /\ cards = <<>>
    /\ drawn = <<>>

\* C7: after a reading failed on a deck of r cards (the cards it left plus
\* the cards it took), a following reading that requires at most r cards
\* succeeds.
C7_RecoverWithSmallerReading ==
    [][(/\ op \in ReadingOps
        /\ is_error(ret)
        /\ op' \in ReadingOps
        /\ RequiredCount(op') <= Len(cards) + Len(drawn)) =>
          ~is_error(ret')]_vars

\* C8: single_card_reading() on a fresh session returns one card and no
\* error; whenever it returns an error the deck was empty when it was called.
C8_SingleCardReading ==
    [][op' = "single_card_reading" =>
          /\ is_error(ret') => cards = <<>>
          /\ ~is_error(ret') => Len(ret'.cards) = 1
          /\ op = "init" => ~is_error(ret')]_vars

\* single_card_reading() was the first call on a fresh session
C8_Witness ==
    /\ op = "single_card_reading"
    /\ steps = 1
    /\ ~is_error(ret)
    /\ Len(ret.cards) = 1
    /\ remaining_cards(cards) = 77

\* C9: every operation leaves the history unchanged or appends one entry at
\* its end, and the history is as long as the number of reading calls that
\* returned no error.
C9_HistoryAppendOnly ==
    /\ [](Len(readings_history) = ok_readings)
    /\ [][\/ readings_history' = readings_history
          \/ /\ Len(readings_history') = Len(readings_history) + 1
             /\ SubSeq(readings_history', 1, Len(readings_history))
                    = readings_history]_vars

\* a reading was saved after two readings had been appended
C9_Witness ==
    /\ Len(readings_history) = 2
    /\ op = "save_reading"
    /\ ret = TRUE

\* the meaning of a card as recorded in a snapshot
SnapshotMeaning(s) ==
    IF s.reversed
    THEN s.name \o " (Reversed): " \o s.description
         \o " - Consider the opposite or blocked energy."
    ELSE s.name \o ": " \o s.description

PositionTable(type) ==
    CASE type = "Three Card (Past, Present, Future)" ->
            <<"Past", "Present", "Future">>
      [] type = "Celtic Cross" ->
            <<"Present Situation", "Challenge/Cross",
              "Distant Past/Foundation", "Recent Past", "Possible Outcome",
              "Near Future", "Your Approach", "External Influences",
              "Hopes and Fears", "Final Outcome">>

\* the positions from `from` on at which sub occurs in s
Occurs(sub, s, from) ==
    {i \in from..(Len(s) - Len(sub) + 1) :
        SubSeq(s, i, i + Len(sub) - 1) = sub}

\* C10: the interpretation of a successful three-card or Celtic Cross result
\* is the lines "{position}: {meaning of cards[i]}" joined by newline, the
\* meaning taken from the snapshot; in a three-card result "Past:",
\* "Present:", "Future:" occur in that order.
C10_InterpretationFromSnapshots ==
    (op \in {"three_card_reading", "celtic_cross_reading"} /\ ~is_error(ret))
    =>  LET pos == PositionTable(ret.type)
        IN  /\ Len(ret.cards) = Len(pos)
            /\ ret.interpretation =
                   join("\n", [i \in 1..Len(pos) |->
                                  pos[i] \o ": "
                                  \o SnapshotMeaning(ret.cards[i])])
            /\ op = "three_card_reading" =>
                   \E i \in Occurs("Past:", ret.interpretation, 1) :
                   \E j \in Occurs("Present:", ret.interpretation, i + 5) :
                   \E k \in Occurs("Future:", ret.interpretation, j + 8) :
                       TRUE

\* a three-card reading drew both a reversed and an upright card
C10_Witness ==
    /\ op = "three_card_reading"
    /\ ~is_error(ret)
    /\ \E i, j \in 1..3 : ret.cards[i].reversed /\ ~ret.cards[j].reversed

\* C11: the interpretation of a successful single-card result is
\* "Today's guidance: " followed by the meaning of its one card, with no
\* position label in front (never "None: ...").
C11_SingleInterpretation ==
    (op = "single_card_reading" /\ ~is_error(ret))
    =>  /\ ret.interpretation =
               "Today's guidance: " \o SnapshotMeaning(ret.cards[1])
        /\ SubSeq(ret.interpretation, 1, 6) # "None: "
        /\ Occurs("Today's guidance: ", ret.interpretation, 1) = {1}

\* a single-card reading drew a reversed card
C11_Witness ==
    /\ op = "single_card_reading"
    /\ ~is_error(ret)
    /\ ret.cards[1].reversed

\* C12: loading a file right after a successful reading result R was saved
\* to it returns a value with the type, the cards (order and the four fields
\* of each) and the interpretation of R, for each of the three readings.
C12_SaveLoadRoundTrip ==
    [][(/\ op = "save_reading"
        /\ ret = TRUE
        /\ ~is_error(arg[2])
        /\ op' = "load_reading"
        /\ arg' = arg[1]) =>
          /\ ret' # None
          /\ ret'[1].type = arg[2].type
          /\ Len(ret'[1].cards) = Len(arg[2].cards)
          /\ \A i \in 1..Len(arg[2].cards) :
                /\ ret'[1].cards[i].name = arg[2].cards[i].name
                /\ ret'[1].cards[i].description = arg[2].cards[i].description
                /\ ret'[1].cards[i].image_file = arg[2].cards[i].image_file
                /\ ret'[1].cards[i].reversed = arg[2].cards[i].reversed
          /\ ret'[1].cards = arg[2].cards
          /\ ret'[1].interpretation = arg[2].interpretation]_vars

\* a saved Celtic Cross result with a reversed card was loaded back
C12_Witness ==
    /\ op = "load_reading"
    /\ ret # None
    /\ ret[1].type = "Celtic Cross"
    /\ Len(ret[1].cards) = 10
    /\ \E i \in 1..10 : ret[1].cards[i].reversed
    /\ readings_history # <<>>
    /\ ret[1] = readings_history[Len(readings_history)]

\* C13: save_reading returns True when the write succeeds (the file can be
\* opened and the reading serialized, and the file then holds its document)
\* and False on an I/O or encoding failure; it always returns a boolean.
C13_SaveReturnsBool ==
    [][op' = "save_reading" =>
          LET filename == arg'[1]
              reading == arg'[2]
              opens == filename \notin {"no_such_dir/reading.rdg",
                                        "locked.rdg"}
              encodes == \/ is_error(reading)
                         \/ \A i \in 1..Len(reading.cards) :
                                DOMAIN reading.cards[i] =
                                    {"name", "description", "image_file",
                                     "reversed"}
          IN  /\ ret' \in BOOLEAN
              /\ ret' = TRUE <=> (opens /\ encodes)
              /\ ret' = TRUE =>
                    /\ files'[filename] # None
                    /\ files'[filename][1] # not_json
              /\ ~opens => files' = files]_vars

\* save_reading returned False because the reading could not be serialized
C13_Witness ==
    /\ op = "save_reading"
    /\ ret = FALSE
    /\ arg[1] = "reading.rdg"
    /\ files["reading.rdg"] = Some(not_json)
    /\ ~is_error(arg[2])

\* C14: load_reading returns None when the file does not exist, cannot be
\* opened or does not hold JSON; when it holds JSON it returns the value of
\* the document, whether or not that is a well-formed reading.
C14_LoadReturnsNoneOrValue ==
    [][op' = "load_reading" =>
          LET filename == arg'
              content == files[filename]
          IN  /\ (\/ filename \in {"no_such_dir/reading.rdg", "locked.rdg"}
                  \/ content = None
                  \/ content = Some(not_json)) <=> ret' = None
              /\ (filename = "other.json" /\ content = Some(other_document))
                    => ret' = Some([type |-> "Celtic Cross",
                                    cards |-> <<[description |->
                                                    "a \"card\""]>>])]_vars

\* a document that names the Celtic Cross but holds one nameless card and no
\* interpretation was loaded as it is
C14_Witness ==
    /\ op = "load_reading"
    /\ arg = "other.json"
    /\ ret # None
    /\ "interpretation" \notin DOMAIN ret[1]
    /\ Len(ret[1].cards) = 1

\* how often the (name, description) pair of card c occurs in cs
Occurrences(c, cs) ==
    Cardinality({i \in 1..Len(cs) :
                    /\ cs[i].name = c.name
                    /\ cs[i].description = c.description})

\* the (name, description) pairs that occur in cs
Pairs(cs) == {<<cs[i].name, cs[i].description>> : i \in 1..Len(cs)}

\* C15: shuffle() keeps the length of the deck and its multiset of
\* (name, description) pairs, whatever the size of the deck (0 and 1
\* included); only the order and the reversed flags may differ.  (The same
\* length and the same set of pairs is the same multiset when no pair occurs
\* twice; otherwise the occurrences are counted.)
C15_ShuffleBijection ==
    [][op' = "shuffle" =>
          /\ Len(cards') = Len(cards)
          /\ Pairs(cards') = Pairs(cards)
          /\ Cardinality(Pairs(cards)) < Len(cards) =>
                \A i \in 1..Len(cards) :
                    Occurrences(cards[i], cards')
                        = Occurrences(cards[i], cards)
          /\ \A i \in 1..Len(cards') :
                /\ cards'[i].image_file = None
                /\ cards'[i].class = "TarotCard"]_vars

\* a shuffle of the full deck changed its order and reversed some cards
C15_Witness ==
    /\ op = "shuffle"
    /\ Len(cards) = 78
    /\ cards[1].name # "The Fool"
    /\ \E i, j \in 1..78 : cards[i].reversed /\ ~cards[j].reversed

\* C16: after reset() in any state the deck equals, position by position and
\* field by field, the deck of a newly constructed session, every reversed
\* flag False.
C16_ResetIsConstruction ==
    [][op' = "reset" =>
          LET fresh == create_deck(<<>>)
          IN  /\ Len(cards') = Len(fresh)
              /\ \A i \in 1..Len(fresh) :
                    /\ cards'[i].name = fresh[i].name
                    /\ cards'[i].description = fresh[i].description
                    /\ cards'[i].image_file = fresh[i].image_file
                    /\ cards'[i].reversed = FALSE]_vars

\* reset() was called as a later call of a session that made no reading
\* (after shuffles and draws), and left no card reversed
C16_Witness ==
    /\ op = "reset"
    /\ steps >= 2
    /\ readings_history = <<>>
    /\ files = [p \in Paths |->
                   IF p = "reading.rdg" THEN Some(not_json) ELSE None]
    /\ \A i \in 1..Len(cards) : ~cards[i].reversed

C18_GetMeaningPure ==
    [][op' = "get_meaning" =>
          /\ cards[1].reversed =>
                ret' = cards[1].name \o " (Reversed): "
                       \o cards[1].description
                       \o " - Consider the opposite or blocked energy."
          /\ ~cards[1].reversed =>
                ret' = cards[1].name \o ": " \o cards[1].description
          /\ cards' = cards]_vars

\* get_meaning() was called on a reversed card after an earlier call
C18_Witness ==
    /\ op = "get_meaning"
    /\ steps >= 2
    /\ cards[1].reversed
    /\ Occurs(" (Reversed): ", ret, 1) # {}

\* C19: to_dict yields exactly the keys name, description, image_file and
\* reversed with the card's values; from_dict of that dict yields a card with
\* the same four fields; from_dict of a dict that has name and description
\* but lacks image_file or reversed sets them to None and False.
C19_SnapshotRoundTrip ==
    [][/\ op' = "to_dict" =>
             /\ DOMAIN ret' = {"name", "description", "image_file",
                               "reversed"}
             /\ ret'.name = cards[1].name
             /\ ret'.description = cards[1].description
             /\ ret'.image_file = cards[1].image_file
             /\ ret'.reversed = cards[1].reversed
       /\ (op' = "from_dict" /\ arg' = to_dict(cards[1])) =>
             /\ ret'.class = "TarotCard"
             /\ ret'.name = cards[1].name
             /\ ret'.description = cards[1].description
             /\ ret'.image_file = cards[1].image_file
             /\ ret'.reversed = cards[1].reversed
       /\ (op' = "from_dict"
           /\ {"name", "description"} \subseteq DOMAIN arg') =>
             /\ "image_file" \notin DOMAIN arg' => ret'.image_file = None
             /\ "reversed" \notin DOMAIN arg' => ret'.reversed = FALSE]_vars

\* the dict of a reversed card with an image was turned back into a card
C19_Witness ==
    /\ op = "from_dict"
    /\ arg = to_dict(cards[1])
    /\ cards[1].reversed
    /\ cards[1].image_file # None
    /\ ret.reversed
    /\ ret.image_file = cards[1].image_file

\* C20 as stated: from_dict of a dict without name or without description
\* fails with a MalformedSnapshot error and produces no card.
C20_MalformedSnapshot ==
    [][(op' = "from_dict"
        /\ ~({"name", "description"} \subseteq DOMAIN arg')) =>
          /\ "class" \notin DOMAIN ret'
          /\ "raised" \in DOMAIN ret'
          /\ ret'.raised = "MalformedSnapshot"]_vars

\* C20 amended: from_dict of a dict without name or without description
\* raises KeyError for the first of the two keys that is absent, and
\* produces no card.
C20_Amended ==
    [][(op' = "from_dict"
        /\ ~({"name", "description"} \subseteq DOMAIN arg')) =>
          /\ "class" \notin DOMAIN ret'
          /\ ret' = [raised |-> "KeyError",
                     key |-> IF "name" \in DOMAIN arg' THEN "description"
                                                      ELSE "name"]]_vars

\* from_dict was called on a dict that has a name but no description
C20_Witness ==
    /\ op = "from_dict"
    /\ "name" \in DOMAIN arg
    /\ "description" \notin DOMAIN arg
    /\ "raised" \in DOMAIN ret

\* C22: draw_card() on a non-empty deck returns the last card of the list and
\* leaves the cards before it, in their order; draw_cards(n) on a deck s of r
\* cards returns s[r-1-i] as element i for i < min(n, r) and leaves the
\* prefix of s of length r - min(n, r).
C22_DrawFromEnd ==
    [][/\ (op' = "draw_card" /\ cards # <<>>) =>
             /\ ret' = Some(cards[Len(cards)])
             /\ cards' = SubSeq(cards, 1, Len(cards) - 1)
       /\ op' = "draw_cards" =>
             LET r == Len(cards)
                 k == Min(arg', r)
             IN  /\ Len(ret') = k
                 /\ \A i \in 0..(k - 1) : ret'[i + 1] = cards[r - i]
                 /\ cards' = SubSeq(cards, 1, r - k)]_vars

\* draw_cards(3) returned three cards from a deck that had been shuffled and
\* drawn from before
C22_Witness ==
    /\ op = "draw_cards"
    /\ arg = 3
    /\ Len(ret) = 3
    /\ steps = 3
    /\ Len(cards) = 74
    /\ \E i \in 1..3 : ret[i].reversed

\* the canonical order, written out
MajorNames ==
    <<"The Fool", "The Magician", "The High Priestess", "The Empress",
      "The Emperor", "The Hierophant", "The Lovers", "The Chariot",
      "Strength", "The Hermit", "Wheel of Fortune", "Justice",
      "The Hanged Man", "Death", "Temperance", "The Devil", "The Tower",
      "The Star", "The Moon", "The Sun", "Judgement", "The World">>

RankNames ==
    <<"Ace", "2", "3", "4", "5", "6", "7", "8", "9", "10",
      "Page", "Knight", "Queen", "King">>

SuitNames == <<"Cups", "Wands", "Swords", "Pentacles">>

CanonicalName(i) ==
    IF i <= 22 THEN MajorNames[i]
    ELSE RankNames[((i - 23) % 14) + 1] \o " of "
         \o SuitNames[((i - 23) \div 14) + 1]

\* C23: right after construction and right after reset() the deck holds, in
\* this order, the 22 major cards from "The Fool" to "The World" and then the
\* suits Cups, Wands, Swords, Pentacles, each as Ace, 2..10, Page, Knight,
\* Queen, King, all upright; draw_card() on that deck returns "King of
\* Pentacles" upright, and drawing 14 cards returns the Pentacles from King
\* down to Ace.
C23_CanonicalOrder ==
    /\ [](op \in {"init", "reset"} =>
             /\ Len(cards) = 78
             /\ \A i \in 1..78 :
                    cards[i].name = CanonicalName(i) /\ ~cards[i].reversed)
    /\ [][(op \in {"init", "reset"} /\ op' = "draw_card") =>
             /\ Len(ret') = 1
             /\ ret'[1].name = "King of Pentacles"
             /\ ret'[1].reversed = FALSE]_vars
    /\ [][(op \in {"init", "reset"} /\ op' = "draw_cards" /\ arg' = 14) =>
             /\ Len(ret') = 14
             /\ \A i \in 1..14 :
                    ret'[i].name = RankNames[15 - i] \o " of Pentacles"]_vars

\* 14 cards were drawn from a deck that reset() had just rebuilt after a
\* reading
C23_Witness ==
    /\ op = "draw_cards"
    /\ arg = 14
    /\ steps = 3
    /\ readings_history # <<>>
    /\ Len(ret) = 14
    /\ ret[1].name = "King of Pentacles"
    /\ ret[14].name = "Ace of Pentacles"
    /\ Len(cards) = 64

\* the addresses a list holds
Addresses(ids) == {ids[i] : i \in 1..Len(ids)}

\* C21: two sessions constructed one after the other share no list and no
\* card object, and a shuffle, draw, reset or reading of one session leaves
\* the other session's deck list, the fields of the cards in it and its
\* history as they were.
C21_SessionsIsolated ==
    /\ [](\A s, t \in Sessions :
             s # t =>
                 /\ sessions[s].cards # sessions[t].cards
                 /\ sessions[s].readings_history
                        # sessions[t].readings_history
                 /\ Addresses(deck(s)) \cap Addresses(deck(t)) = {})
    /\ [][\A s \in Sessions :
             (op' \in SessionOps /\ arg'[1] = s) =>
                 \A t \in Sessions \ {s} :
                     /\ lists'[sessions'[t].cards] = deck(t)
                     /\ \A o \in Addresses(deck(t)) : objects'[o] = objects[o]
                     /\ lists'[sessions'[t].readings_history]
                            = history(t)]_vars

\* session A made a Celtic Cross reading after session B had made a
\* single-card reading; B has its one entry and its 77 cards
C21_Witness ==
    /\ op = "celtic_cross_reading"
    /\ arg = <<"A">>
    /\ ~is_error(ret)
    /\ history("A") = <<ret>>
    /\ Len(history("B")) = 1
    /\ history("B")[1].type = "Single Card"
    /\ Len(deck("A")) = 68
    /\ Len(deck("B")) = 77

\* C24: a shuffle changes no card outside the deck it shuffles; a shuffle, a
\* reset and a reading (which shuffles first) leave the fields of every card
\* drawn earlier, and every entry already in a history, as they were.
C24_ShuffleOnlyDeck ==
    [][/\ op' = "shuffle" =>
             \A o \in DOMAIN objects \ Addresses(deck(arg'[1])) :
                 objects'[o] = objects[o]
       /\ op' \in {"shuffle", "reset"} \cup ReadingOps =>
             /\ \A i \in 1..Len(held) : objects'[held[i]] = objects[held[i]]
             /\ \A s \in Sessions :
                    SubSeq(lists'[sessions'[s].readings_history], 1,
                           Len(history(s))) = history(s)]_vars

\* session A's deck was shuffled, and cards in it turned over, after three
\* of its cards had been drawn; the drawn cards are upright as before
C24_Witness ==
    /\ op = "shuffle"
    /\ arg = <<"A">>
    /\ Len(held) = 3
    /\ Addresses(held) = {76, 77, 78}
    /\ \A i \in 1..3 : ~objects[held[i]].reversed
    /\ \E o \in Addresses(deck("A")) : objects[o].reversed

\* C25: no step changes the name or the description of a card; a step that
\* changes a card's reversed flag is a flip, a shuffle or a reading; flip
\* toggles the flag of its card and changes nothing else; a reading leaves
\* the cards as its shuffle alone would, and the snapshots it returns carry
\* the flags of the cards it drew.
C25_CardFieldsFrame ==
    [][/\ \A o \in DOMAIN objects :
             /\ objects'[o].name = objects[o].name
             /\ objects'[o].description = objects[o].description
             /\ objects'[o].image_file = objects[o].image_file
             /\ objects'[o].reversed # objects[o].reversed =>
                    op' \in {"flip", "shuffle"} \cup ReadingOps
       /\ op' = "flip" =>
             /\ objects' = [objects EXCEPT ![arg'[1]].reversed =
                                               ~objects[arg'[1]].reversed]
             /\ lists' = lists
       /\ op' \in ReadingOps =>
             /\ \E s \in {arg'[1]}, seed \in SessionSeeds :
                    objects' = assign(objects,
                                      shuffle(referents(objects, deck(s)),
                                              seed)).objects
             /\ ~is_error(ret') =>
                    \A i \in 1..Len(drawn') :
                        ret'.cards[i].reversed = objects'[drawn'[i]].reversed
      ]_vars

\* a card that a shuffle had turned over was flipped back
C25_Witness ==
    /\ op = "flip"
    /\ steps = 2
    /\ ~objects[arg[1]].reversed
    /\ \E o \in DOMAIN objects : objects[o].reversed

\* C26: save_reading and load_reading, whether they succeed or fail, leave
\* the deck (its order and every card's orientation) and the history
\* unchanged; what load_reading returns is not appended to the history.
C26_PersistenceFrame ==
    [][op' \in {"save_reading", "load_reading"} =>
          /\ cards' = cards
          /\ readings_history' = readings_history
          /\ Len(readings_history') = ok_readings']_vars

\* load_reading returned the reading saved before, and the history still has
\* its one entry
C26_Witness ==
    /\ op = "load_reading"
    /\ steps = 3
    /\ ret # None
    /\ readings_history = <<ret[1]>>
    /\ Len(cards) < 78
    /\ \E i \in 1..Len(cards) : cards[i].reversed

\* C27: a reading operation that returns an error leaves the deck empty; the
\* cards that remained before the call were all taken from the shuffled deck
\* and are in neither the result, which holds the error message alone, nor
\* the history, which gets no entry.
C27_ErrorDrainsDeck ==
    [][(op' \in ReadingOps /\ is_error(ret')) =>
          /\ cards' = <<>>
          /\ remaining_cards(cards') = 0
          /\ DOMAIN ret' = {"error"}
          /\ readings_history' = readings_history
          /\ Len(drawn') = Len(cards)
          /\ Names(drawn') = Names(cards)
          /\ \E seed \in Seeds :
                 LET shuffled == shuffle(cards, seed)
                 IN  \A i \in 1..Len(cards) :
                         drawn'[i] = shuffled[Len(cards) + 1 - i]]_vars

\* a Celtic Cross reading failed with 4 cards remaining, after a reading
\* that succeeded; the 4 cards, some turned over by the shuffle, are gone
C27_Witness ==
    /\ op = "celtic_cross_reading"
    /\ is_error(ret)
    /\ Len(readings_history) = 1
    /\ Len(drawn) = 4
    /\ cards = <<>>
    /\ \E i \in 1..4 : drawn[i].reversed

\* the places of the card snapshots in a history: <<entry, position>>
Dealt(hist) ==
    UNION {{<<e, i>> : i \in 1..Len(hist[e].cards)} : e \in 1..Len(hist)}

\* the names at those places
DealtNames(hist) == {hist[p[1]].cards[p[2]].name : p \in Dealt(hist)}

\* C28: in a session whose deck is never reset, the names of the cards in
\* the history entries are pairwise distinct, within an entry and across
\* entries (there are as many names as places), none of them is the name of
\* a card still in the deck, and the cards in the history together with the
\* remaining cards are at most 78.
C28_NoCardDealtTwice ==
    /\ Cardinality(DealtNames(readings_history))
           = Cardinality(Dealt(readings_history))
    /\ DealtNames(readings_history) \cap Names(cards) = {}
    /\ Cardinality(Dealt(readings_history)) + remaining_cards(cards) <= 78

\* three readings of the three types have dealt 14 cards and 64 remain
C28_Witness ==
    /\ Len(readings_history) = 3
    /\ {readings_history[e].type : e \in 1..3}
           = {"Single Card", "Three Card (Past, Present, Future)",
              "Celtic Cross"}
    /\ Cardinality(Dealt(readings_history)) = 14
    /\ remaining_cards(cards) = 64

\* C29: in a session whose deck is never reset, once a reading operation has
\* returned an error, every reading operation called from then on returns an
\* error and the history keeps its length; and when every call so far was a
\* Celtic Cross reading that succeeded, the next Celtic Cross reading
\* succeeds if fewer than 7 were made and returns the error if 7 were made.
C29_FailureAbsorbing ==
    /\ [][failed_readings > 0 =>
             /\ op' \in ReadingOps => is_error(ret')
             /\ readings_history' = readings_history]_vars
    /\ [][(/\ op' = "celtic_cross_reading"
           /\ steps = Len(readings_history)
           /\ OnlyCeltic(readings_history)) =>
             /\ steps < 7 => ~is_error(ret')
             /\ steps = 7 => is_error(ret')
             /\ steps <= 7]_vars

\* the 8th and the 9th Celtic Cross reading of a fresh session returned the
\* error, after 7 that succeeded
C29_Witness ==
    /\ steps = 9
    /\ failed_readings = 2
    /\ op = "celtic_cross_reading"
    /\ is_error(ret)
    /\ Len(readings_history) = 7
    /\ OnlyCeltic(readings_history)
    /\ cards = <<>>
    /\ drawn = <<>>

====
